---- MODULE Spec2Model ----
(***************************************************************************)
(* Model of src/app.py, the Sports Deal Tracker dashboard script.          *)
(*                                                                         *)
(* The script is re-run top to bottom on every widget change.  One run is  *)
(* modelled as the sequence of its sections: the sidebar widgets (lines    *)
(* 33-52), "Apply filters" (54-76), "KPIs" (81-89) and "Charts" (93-139).  *)
(* The loaded table df is produced once by load_deals (8-24) and cached.   *)
(*                                                                         *)
(* Representation.  A float cell is <<n>> for the number n and <<>> for    *)
(* NaN; a date cell is <<d>> for day d and <<>> for NaT; an absent string  *)
(* cell is NA.  Deal values are integers (whole dollars); the average is   *)
(* kept in hundredths, which is what round(avg, 2) produces.               *)
(***************************************************************************)
EXTENDS Integers, Sequences, FiniteSets

\* ------------------------------------------------------------------ bounds
MaxRows == 2      \* rows of a loaded table
MaxVal == 2       \* largest deal value
MaxDay == 1       \* days are 0..MaxDay
MaxSel == 2       \* options a user ticks in one multiselect
MaxExtra == 1     \* groups beyond the top-N limit in the large tables

\* ------------------------------------------------------- program constants
TopN == 10        \* .head(10)

\* ------------------------------------------------------------ cell values
NA == "<NA>"
NaN == <<>>
NaT == <<>>
Num(n) == <<n>>

\* Strings in ascending order, as Python's sorted() and groupby(sort=True)
\* order them.  Name(i) are the keys of the large tables.
KeyNames ==
  << "Americas", "Apparel", "Beverage", "Broadcast", "Europe", "Football",
     "K01", "K02", "K03", "K04", "K05", "K06", "K07", "K08", "K09", "K10",
     "K11", "K12", "K13", "Naming", "Nike", "Pepsi", "Tennis" >>

Name(i) == KeyNames[6 + i]

\* ------------------------------------------------- float and date compares
\* IEEE comparisons: anything compared with NaN (or NaT) is False.
Le(a, b) == a # <<>> /\ b # <<>> /\ a[1] <= b[1]
Ge(a, b) == a # <<>> /\ b # <<>> /\ a[1] >= b[1]
Gt(a, b) == a # <<>> /\ b # <<>> /\ a[1] > b[1]

\* Python `x or d`: d when x is falsy.  0.0 is falsy, NaN is truthy.
PyOr(x, d) == IF x = Num(0) THEN d ELSE x

\* Python max(a, b): b only when b > a, else the first argument.
PyMax(a, b) == IF Gt(b, a) THEN b ELSE a

\* Series.fillna(d)
fillna(x, d) == IF x = NaN THEN d ELSE x

\* ------------------------------------------------------------ folds
RECURSIVE SumSeq(_)
SumSeq(s) == IF s = <<>> THEN 0 ELSE s[1] + SumSeq(Tail(s))

\* The numbers of a column, NaN skipped (skipna=True).
Numbers(col) ==
  LET RECURSIVE Go(_)
      Go(s) == IF s = <<>> THEN <<>>
               ELSE IF s[1] = NaN THEN Go(Tail(s))
               ELSE <<s[1][1]>> \o Go(Tail(s))
  IN Go(col)

Column(t, field) == [i \in 1..Len(t) |-> t[i][field]]

\* Series.sum(): NaN skipped, 0 for no numbers.
ColSum(col) == SumSeq(Numbers(col))

\* Series.max(): NaN skipped, NaN for no numbers.
ColMax(col) ==
  LET ns == Numbers(col)
  IN IF ns = <<>> THEN NaN
     ELSE Num(CHOOSE m \in {ns[i] : i \in 1..Len(ns)} :
                \A j \in 1..Len(ns) : ns[j] <= m)

\* round(sum / count, 2) in hundredths, ties to even as Python rounds.
RoundDiv(n, d) ==
  LET q == (n * 100) \div d
      r == (n * 100) % d
  IN IF 2 * r < d THEN q
     ELSE IF 2 * r > d THEN q + 1
     ELSE IF q % 2 = 0 THEN q ELSE q + 1

\* round(Series.mean(), 2): NaN skipped, NaN for no numbers.
ColMeanRounded(col) ==
  LET ns == Numbers(col)
  IN IF ns = <<>> THEN NaN ELSE Num(RoundDiv(SumSeq(ns), Len(ns)))

\* ------------------------------------------------------------ deal records
\* The columns the pipeline reads.  (property, deal_name, country and
\* currency are loaded and displayed but never read by a filter, a KPI or a
\* chart.)
Deal(sp, rt, rg, cat, brand, v, sd, ed) ==
  [ sport |-> sp, rights_type |-> rt, region |-> rg,
    sponsor_category |-> cat, sponsor_brand |-> brand,
    deal_value_usd |-> v, start_date |-> sd, end_date |-> ed ]

Days == 0..MaxDay

\* A complete row, running over all modelled days.
Base ==
  Deal("Football", "Naming", "Europe", "Apparel", "Nike",
       Num(1), Num(0), Num(MaxDay))

\* A row of blanks: every cell coerced to absent by load_deals.
Blank == Deal(NA, NA, NA, NA, NA, NaN, NaT, NaT)

\* A row differing from Base in every column; it starts on the last day.
Other ==
  Deal("Tennis", "Broadcast", "Americas", "Beverage", "Pepsi",
       Num(MaxVal), Num(MaxDay), Num(MaxDay))

\* The rows small tables are built from.
Deals ==
  { Base, Blank, Other,
    [Base EXCEPT !.deal_value_usd = Num(0)],
    [Base EXCEPT !.deal_value_usd = Num(0 - 1)],
    [Base EXCEPT !.start_date = NaT],
    [Base EXCEPT !.end_date = NaT],
    [Base EXCEPT !.end_date = Num(0)],
    [Base EXCEPT !.sponsor_category = NA, !.sponsor_brand = NA,
                 !.region = NA] }

SeqsUpTo(S, n) == UNION { [1..k -> S] : k \in 0..n }

SmallTables == SeqsUpTo(Deals, MaxRows)

\* Large tables: n rows with pairwise different brands and categories (the
\* last row repeating the first brand when dup); row low is worth 1, the
\* other even rows k and the other odd rows MaxVal.
BrandTable(n, k, low, dup) ==
  [ i \in 1..n |->
      Deal(NA, NA, "Europe", Name(i),
           Name(IF dup /\ i = n THEN 1 ELSE i),
           Num(IF i = low THEN 1 ELSE IF i % 2 = 0 THEN k ELSE MaxVal),
           Num(0), Num(MaxDay)) ]

\* Large tables: n rows with pairwise different regions.
RegionTable(n) ==
  [ i \in 1..n |->
      Deal(NA, NA, Name(i), "Apparel", "Nike",
           Num(1 + (i % MaxVal)), Num(0), Num(MaxDay)) ]

LargeTables ==
  { BrandTable(n, k, low, dup) :
      n \in (TopN - 1)..(TopN + MaxExtra), k \in 1..MaxVal,
      low \in 1..(TopN + MaxExtra), dup \in BOOLEAN }
  \cup { RegionTable(TopN + MaxExtra) }

\* ------------------------------------------------------------------ state
VARIABLES
  df,            \* the table load_deals returned (cached)
  pc,            \* the section of the script that runs next
  sport_sel, rights_sel, region_sel, value_range, active_only,
  today,         \* the script's variable today (set only when active_only)
  f,             \* the filtered table
  deals_shown, total_value, avg,       \* the three st.metric values
  by_cat, by_brand, by_region,         \* the chart-ready aggregates
  charts,        \* the figures passed to st.plotly_chart, in order
  info           \* whether st.info("No deals match ...") was shown

widgets == <<sport_sel, rights_sel, region_sel, value_range, active_only>>
kpis == <<deals_shown, total_value, avg>>
aggregates == <<by_cat, by_brand, by_region>>
output == <<charts, info>>
vars == <<df, pc, widgets, today, f, kpis, aggregates, output>>

\* ----------------------------------------------------------------- sidebar
\* sorted(col.dropna().unique().tolist()); only membership is used later.
Options(t, field) == { t[i][field] : i \in 1..Len(t) } \ {NA}

\* value_max, line 44
ValueMax(t) == PyOr(ColMax(Column(t, "deal_value_usd")), Num(0))

\* max(value_max, 1.0), lines 48 and 49
SliderMax(t) == PyMax(ValueMax(t), Num(1))

\* The slider's default value, line 49.
SliderDefault(t) == <<Num(0), SliderMax(t)>>

\* What st.sidebar.slider can return: its default value (the value argument,
\* NaN bound included), or a range the user dragged to inside
\* [min_value, max_value].  Whole dollars only: deal values
\* are whole, so every other range filters like one of these.
SliderValues(t) ==
  LET top == SliderMax(t)
      Stops == IF top = NaN THEN {} ELSE { Num(n) : n \in 0..top[1] }
  IN {SliderDefault(t)}
     \cup { vr \in Stops \X Stops : Le(vr[1], vr[2]) }

\* What st.sidebar.multiselect can return (default=[]).
Selections(opts) == { s \in SUBSET opts : Cardinality(s) <= MaxSel }

\* ----------------------------------------------------------- apply filters
\* Series.isin(sel)
isin(x, sel) == x \in sel

\* Mutant of ValueMask: the upper bound taken exclusive.
ValueMaskExclusive(r, vr) ==
  /\ Ge(fillna(r.deal_value_usd, Num(0)), vr[1])
  /\ fillna(r.deal_value_usd, Num(0)) # vr[2]
  /\ Le(fillna(r.deal_value_usd, Num(0)), vr[2])

\* lines 67-68
ValueMask(r, vr) ==
  /\ Ge(fillna(r.deal_value_usd, Num(0)), vr[1])
  /\ Le(fillna(r.deal_value_usd, Num(0)), vr[2])

\* lines 74-75
ActiveMask(r, td) == Le(r.start_date, td) /\ Ge(r.end_date, td)

\* Mutant of FilterSteps: the value mask is computed on the unfiltered table
\* and applied to f by position (f[mask.values]) instead of by row label.
FilterStepsByPosition(t, ss, rs, gs, vr, ao, td) ==
  LET f1 == IF ss # {} THEN SelectSeq(t, LAMBDA r : isin(r.sport, ss)) ELSE t
      f2 == IF rs # {}
            THEN SelectSeq(f1, LAMBDA r : isin(r.rights_type, rs)) ELSE f1
      f3 == IF gs # {}
            THEN SelectSeq(f2, LAMBDA r : isin(r.region, gs)) ELSE f2
      RECURSIVE Pick(_)
      Pick(i) == IF i > Len(f3) THEN <<>>
                 ELSE (IF ValueMask(t[i], vr) THEN <<f3[i]>> ELSE <<>>)
                      \o Pick(i + 1)
      f4 == Pick(1)
      f5 == IF ao THEN SelectSeq(f4, LAMBDA r : ActiveMask(r, td)) ELSE f4
  IN f5

\* lines 55-76: the five filter steps, in the script's order.
FilterSteps(t, ss, rs, gs, vr, ao, td) ==
  LET f1 == IF ss # {} THEN SelectSeq(t, LAMBDA r : isin(r.sport, ss)) ELSE t
      f2 == IF rs # {}
            THEN SelectSeq(f1, LAMBDA r : isin(r.rights_type, rs)) ELSE f1
      f3 == IF gs # {}
            THEN SelectSeq(f2, LAMBDA r : isin(r.region, gs)) ELSE f2
      f4 == SelectSeq(f3, LAMBDA r : ValueMask(r, vr))
      f5 == IF ao THEN SelectSeq(f4, LAMBDA r : ActiveMask(r, td)) ELSE f4
  IN f5

\* -------------------------------------------------------------------- KPIs
\* Mutant of AvgMetric: the `if len(f)` guard dropped.
AvgMetricUnguarded(t) == ColMeanRounded(Column(t, "deal_value_usd"))

\* lines 88-89: round(f[...].mean() if len(f) else 0, 2), in hundredths.
AvgMetric(t) ==
  IF Len(t) # 0 THEN ColMeanRounded(Column(t, "deal_value_usd")) ELSE Num(0)

\* ------------------------------------------------------------ aggregation
\* The group keys of groupby(field): absent keys dropped (dropna=True),
\* ascending (sort=True).
GroupKeys(t, field) ==
  SelectSeq(KeyNames, LAMBDA k : \E i \in 1..Len(t) : t[i][field] = k)

\* groupby(field, as_index=False)["deal_value_usd"].sum()
GroupSum(t, field) ==
  LET keys == GroupKeys(t, field)
  IN [ j \in 1..Len(keys) |->
         [ key |-> keys[j],
           deal_value_usd |->
             ColSum(Column(SelectSeq(t, LAMBDA r : r[field] = keys[j]),
                           "deal_value_usd")) ] ]

\* Mutant of SortValuesDesc: the sort left out.
SortValuesMissing(rows) == rows

\* sort_values("deal_value_usd", ascending=False).  Rows with equal sums keep
\* their order here (what the default sort does on inputs this small); no
\* property below depends on the order among equal sums.
RECURSIVE SortValuesDesc(_)
SortValuesDesc(rows) ==
  IF rows = <<>> THEN <<>>
  ELSE LET i == CHOOSE i \in 1..Len(rows) :
                  /\ \A j \in 1..Len(rows) :
                       rows[j].deal_value_usd <= rows[i].deal_value_usd
                  /\ \A j \in 1..(i - 1) :
                       rows[j].deal_value_usd < rows[i].deal_value_usd
       IN <<rows[i]>>
          \o SortValuesDesc(SubSeq(rows, 1, i - 1)
                            \o SubSeq(rows, i + 1, Len(rows)))

\* DataFrame.head(n)
head(rows, n) == SubSeq(rows, 1, IF Len(rows) < n THEN Len(rows) ELSE n)

\* lines 98-102 and 126-130
Aggregate(t, field) == SortValuesDesc(GroupSum(t, field))

\* Mutant of AggregateTop: head() taken before sort_values().
AggregateTopHeadFirst(t, field, n) ==
  SortValuesDesc(head(GroupSum(t, field), n))

\* lines 112-117
AggregateTop(t, field, n) == head(SortValuesDesc(GroupSum(t, field)), n)

\* ----------------------------------------------------------------- actions
\* A fresh run of the script: nothing computed yet.
Fresh ==
  /\ sport_sel = {} /\ rights_sel = {} /\ region_sel = {}
  /\ value_range = <<Num(0), Num(0)>> /\ active_only = FALSE
  /\ today = NaT /\ f = <<>>
  /\ deals_shown = 0 /\ total_value = 0 /\ avg = Num(0)
  /\ by_cat = <<>> /\ by_brand = <<>> /\ by_region = <<>>
  /\ charts = <<>> /\ info = FALSE

InitWith(tables) ==
  /\ df \in tables
  /\ pc = "sidebar"
  /\ Fresh

\* lines 33-52: the widgets return the user's current choices.
Sidebar ==
  /\ pc = "sidebar"
  /\ sport_sel' \in Selections(Options(df, "sport"))
  /\ rights_sel' \in Selections(Options(df, "rights_type"))
  /\ region_sel' \in Selections(Options(df, "region"))
  /\ value_range' \in SliderValues(df)
  /\ active_only' \in BOOLEAN
  /\ pc' = "filters"
  /\ UNCHANGED <<df, today, f, kpis, aggregates, output>>

\* Mutant of ApplyFilters: the copy left out, df itself is filtered.
ApplyFiltersInPlace ==
  /\ pc = "filters"
  /\ \E d \in Days :
       /\ today' = IF active_only THEN Num(d) ELSE today
       /\ f' = FilterSteps(df, sport_sel, rights_sel, region_sel, value_range,
                           active_only, Num(d))
  /\ df' = f'
  /\ pc' = "kpis"
  /\ UNCHANGED <<widgets, kpis, aggregates, output>>

\* lines 54-76; d is the day date.today() returns at line 72.
ApplyFilters ==
  /\ pc = "filters"
  /\ \E d \in Days :
       /\ today' = IF active_only THEN Num(d) ELSE today
       /\ f' = FilterSteps(df, sport_sel, rights_sel, region_sel, value_range,
                           active_only, Num(d))
  /\ pc' = "kpis"
  /\ UNCHANGED <<df, widgets, kpis, aggregates, output>>

\* lines 81-89
KPIs ==
  /\ pc = "kpis"
  /\ deals_shown' = Len(f)
  /\ total_value' = ColSum(Column(f, "deal_value_usd"))
  /\ avg' = AvgMetric(f)
  /\ pc' = "charts"
  /\ UNCHANGED <<df, widgets, today, f, aggregates, output>>

\* lines 94-137
Charts ==
  /\ pc = "charts"
  /\ f # <<>>
  /\ by_cat' = Aggregate(f, "sponsor_category")
  /\ by_brand' = AggregateTop(f, "sponsor_brand", TopN)
  /\ by_region' = Aggregate(f, "region")
  /\ charts' = <<"fig_cat", "fig_brand", "fig_region">>
  /\ pc' = "done"
  /\ UNCHANGED <<df, widgets, today, f, kpis, info>>

\* lines 138-139
NoDeals ==
  /\ pc = "charts"
  /\ f = <<>>
  /\ info' = TRUE
  /\ pc' = "done"
  /\ UNCHANGED <<df, widgets, today, f, kpis, aggregates, charts>>

\* A widget changes: the script runs again from the top, from the cached df.
Rerun ==
  /\ pc = "done"
  /\ pc' = "sidebar"
  /\ sport_sel' = {} /\ rights_sel' = {} /\ region_sel' = {}
  /\ value_range' = <<Num(0), Num(0)>> /\ active_only' = FALSE
  /\ today' = NaT /\ f' = <<>>
  /\ deals_shown' = 0 /\ total_value' = 0 /\ avg' = Num(0)
  /\ by_cat' = <<>> /\ by_brand' = <<>> /\ by_region' = <<>>
  /\ charts' = <<>> /\ info' = FALSE
  /\ UNCHANGED df

Next ==
  \/ Sidebar
  \/ ApplyFilters
  \/ KPIs
  \/ Charts
  \/ NoDeals
  \/ Rerun

Init == InitWith(SmallTables)
Spec == Init /\ [][Next]_vars

InitLarge == InitWith(LargeTables)
SpecLarge == InitLarge /\ [][Next]_vars

\* -------------------------------------------------------------- properties
Filtered == pc \in {"kpis", "charts", "done"}
Done == pc = "done"

\* A deal value with absent counted as 0.
ValueOrZero(r) ==
  IF r.deal_value_usd = NaN THEN 0 ELSE r.deal_value_usd[1]

\* The sum of the deal values of the rows of t whose field is k.
TotalOf(t, field, k) ==
  SumSeq([ i \in 1..Len(t) |->
             IF t[i][field] = k THEN ValueOrZero(t[i]) ELSE 0 ])

KeysOf(t, field) == { t[i][field] : i \in 1..Len(t) }

RowsOf(rows) == { rows[i] : i \in 1..Len(rows) }

Descending(rows) ==
  \A i \in 1..(Len(rows) - 1) :
    rows[i].deal_value_usd >= rows[i + 1].deal_value_usd

\* ---- C1
\* The record r passes the criteria of this run, as the filter contract
\* states them.
Passes(r) ==
  /\ sport_sel # {} => (r.sport # NA /\ r.sport \in sport_sel)
  /\ rights_sel # {} => (r.rights_type # NA /\ r.rights_type \in rights_sel)
  /\ region_sel # {} => (r.region # NA /\ r.region \in region_sel)
  /\ value_range[1] # NaN /\ value_range[2] # NaN
  /\ value_range[1][1] <= ValueOrZero(r)
  /\ ValueOrZero(r) <= value_range[2][1]
  /\ active_only =>
       /\ r.start_date # NaT /\ r.end_date # NaT
       /\ r.start_date[1] <= today[1] /\ today[1] <= r.end_date[1]

\* C1: the filtered table is exactly the subsequence, in the original order,
\* of the loaded records that pass every criterion: membership in each
\* non-empty selected set (an absent cell never a member), deal value with
\* absent as 0 inside the inclusive range, and, under active-only, both dates
\* present with start <= today <= end.
C1_FilterIsExactSubsequence ==
  Filtered => f = SelectSeq(df, Passes)

\* A run where three filters are on and each kind of row is present: kept
\* rows, a row with an absent sport, a row on the upper bound of the range.
C1_Witness ==
  /\ Done /\ active_only /\ sport_sel # {}
  /\ f # <<>> /\ Len(f) < Len(df)
  /\ \E i \in 1..Len(df) : df[i].sport = NA
  /\ \E i \in 1..Len(f) : f[i].deal_value_usd = value_range[2]

\* ---- C2
\* C2: the average metric is total / count (to two decimals) when count > 0
\* and exactly 0 when count = 0, count including the records whose deal
\* value is absent.
C2_AvgIsTotalOverCount ==
  Done => avg = IF deals_shown > 0
                THEN Num(RoundDiv(total_value, deals_shown))
                ELSE Num(0)

\* ---- C3
\* C3: in each un-truncated aggregate, the records whose group key is absent
\* form a group of their own, keyed by absent, holding the sum of their values.
C3_AbsentKeyGroupKept ==
  (Done /\ f # <<>>) =>
    /\ NA \in KeysOf(f, "sponsor_category") =>
         [ key |-> NA,
           deal_value_usd |-> TotalOf(f, "sponsor_category", NA) ]
           \in RowsOf(by_cat)
    /\ NA \in KeysOf(f, "region") =>
         [ key |-> NA, deal_value_usd |-> TotalOf(f, "region", NA) ]
           \in RowsOf(by_region)
    /\ (NA \in KeysOf(f, "sponsor_brand")
        /\ Cardinality(KeysOf(f, "sponsor_brand")) <= TopN) =>
         [ key |-> NA, deal_value_usd |-> TotalOf(f, "sponsor_brand", NA) ]
           \in RowsOf(by_brand)

\* ---- C4
\* C4: the totals of the rows of an aggregate without a top-N limit add up to
\* the total-value metric of the same filtered table.
C4_AggregationConservation ==
  (Done /\ f # <<>>) =>
    /\ SumSeq(Column(by_cat, "deal_value_usd")) = total_value
    /\ SumSeq(Column(by_region, "deal_value_usd")) = total_value

\* ---- C5
\* C5: filtering is idempotent: the filter steps applied to the filtered
\* table, with the same criteria and date, give the filtered table again.
C5_FilterIdempotent ==
  Filtered =>
    FilterSteps(f, sport_sel, rights_sel, region_sel, value_range,
                active_only, today) = f

\* A run whose filters dropped some rows and kept others.
C5_Witness ==
  /\ Filtered /\ f # <<>> /\ Len(f) < Len(df)
  /\ sport_sel # {} /\ value_range # SliderDefault(df)

\* ---- C6
\* C6: a finished run with no record left reports count 0, total 0 and
\* average 0, has no aggregate row and no chart, and shows the "No deals
\* match" message; a finished run with a record left has drawn the three
\* charts and shows no message.  Exactly one of the two happens.
C6_EmptyResultOrCharts ==
  Done =>
    /\ f = <<>> =>
         /\ deals_shown = 0 /\ total_value = 0 /\ avg = Num(0)
         /\ by_cat = <<>> /\ by_brand = <<>> /\ by_region = <<>>
         /\ charts = <<>> /\ info
    /\ f # <<>> =>
         /\ charts = <<"fig_cat", "fig_brand", "fig_region">>
         /\ ~info
    /\ info # (charts # <<>>)

\* A finished run on a non-empty table that the filters emptied.
C6_Witness == Done /\ df # <<>> /\ f = <<>> /\ info

\* ---- C7
\* C7: every aggregate is ordered by total value, descending.
C7_AggregatesDescending ==
  Done => Descending(by_cat) /\ Descending(by_brand) /\ Descending(by_region)

\* Two Apparel deals and a larger Beverage deal: the Beverage row, second in
\* key order, comes first.
C7_Witness ==
  /\ Done /\ Len(by_cat) = 2
  /\ by_cat[1].key = "Beverage" /\ by_cat[2].key = "Apparel"
  /\ by_cat[1].deal_value_usd > by_cat[2].deal_value_usd
  /\ by_cat[2].deal_value_usd > 0

\* ---- C8
\* The groups groupby forms: one for each key present in the column.
GroupsOf(t, field) == KeysOf(t, field) \ {NA}

\* C8: the brand aggregate holds min(10, number of brand groups) rows, each
\* a brand group with its total, and no group left out has a larger total
\* than a row kept; the category and region aggregates hold every group.
C8_TopTenBrands ==
  (Done /\ f # <<>>) =>
    LET brands == GroupsOf(f, "sponsor_brand")
        kept == { by_brand[i].key : i \in 1..Len(by_brand) }
    IN /\ Len(by_brand) =
            (IF Cardinality(brands) < TopN THEN Cardinality(brands) ELSE TopN)
       /\ Cardinality(kept) = Len(by_brand)
       /\ kept \subseteq brands
       /\ \A i \in 1..Len(by_brand) :
            by_brand[i].deal_value_usd =
              TotalOf(f, "sponsor_brand", by_brand[i].key)
       /\ \A k \in brands \ kept : \A i \in 1..Len(by_brand) :
            TotalOf(f, "sponsor_brand", k) <= by_brand[i].deal_value_usd
       /\ Len(by_cat) = Cardinality(GroupsOf(f, "sponsor_category"))
       /\ Len(by_region) = Cardinality(GroupsOf(f, "region"))

\* A finished run with more than ten brand groups, one of them left out
\* with a total strictly below the smallest kept one, and with more than ten
\* categories charted.
C8_Witness ==
  /\ Done /\ Len(by_brand) = TopN
  /\ Cardinality(GroupsOf(f, "sponsor_brand")) > TopN
  /\ \E k \in GroupsOf(f, "sponsor_brand") :
       TotalOf(f, "sponsor_brand", k) < by_brand[TopN].deal_value_usd
  /\ Len(by_cat) > TopN

\* ---- C9
\* What a run on table t with the current widget values and date computes.
FilterOf(t) ==
  FilterSteps(t, sport_sel, rights_sel, region_sel, value_range,
              active_only, today)

\* C9: no step of any run changes the loaded table, and what a finished run
\* shows is determined by the loaded table, that run's criteria and the date
\* alone.
C9_RunsAreStateless ==
  /\ [][df' = df]_vars
  /\ [](Done =>
          /\ f = FilterOf(df)
          /\ deals_shown = Len(FilterOf(df))
          /\ total_value = ColSum(Column(FilterOf(df), "deal_value_usd"))
          /\ avg = AvgMetric(FilterOf(df))
          /\ FilterOf(df) # <<>> =>
               /\ by_cat = Aggregate(FilterOf(df), "sponsor_category")
               /\ by_brand = AggregateTop(FilterOf(df), "sponsor_brand", TopN)
               /\ by_region = Aggregate(FilterOf(df), "region")
          /\ FilterOf(df) = <<>> =>
               by_cat = <<>> /\ by_brand = <<>> /\ by_region = <<>>)

\* A finished run whose filters, the date filter among them, kept some rows
\* of the loaded table and dropped others.
C9_Witness ==
  /\ Done /\ f # <<>> /\ Len(f) < Len(df) /\ active_only /\ charts # <<>>

\* ---- C10
\* The widget values of a run in which the user touched nothing.
DefaultCriteria ==
  /\ sport_sel = {} /\ rights_sel = {} /\ region_sel = {}
  /\ value_range = SliderDefault(df)
  /\ ~active_only

NoNegativeValue(t) ==
  \A i \in 1..Len(t) : t[i].deal_value_usd = NaN \/ t[i].deal_value_usd[1] >= 0

\* C10: with the default criteria the filtered table is the loaded table,
\* for every loaded table without a negative deal value, tables whose deal
\* values are all absent included.
C10_DefaultsKeepEverything ==
  (Filtered /\ DefaultCriteria /\ NoNegativeValue(df)) => f = df

TypeOK == pc \in {"sidebar", "filters", "kpis", "charts", "done"}

====
